---- MODULE Spec2Model ----
(***************************************************************************)
(* MARS, the multi-AI research orchestrator (researcher.py) and its        *)
(* providers (providers.py), as a state machine.                            *)
(*                                                                         *)
(* The event loop is asyncio's: the tasks of one gather() are started in   *)
(* the order of self.ai, each runs until its first real suspension, and a  *)
(* suspended task is resumed only by a later loop iteration.  The API      *)
(* clients are called synchronously inside query(), so a primary API call  *)
(* starts and resolves within one step of a task; the CLI fallback         *)
(* (asyncio subprocess) is a suspension.                                   *)
(*                                                                         *)
(* A text is abstracted to what the code does with it: who produced it for *)
(* which request (req, by, rnd), on which path (src: "api" or "cli"), and  *)
(* whether it starts with "[" (br), the test of researcher.py:484.         *)
(*                                                                         *)
(* Of the file system, state.json and the existence of the output          *)
(* directory are represented.                                              *)
(*                                                                         *)
(* Spec is a run of main() with deep research off: every primary call is   *)
(* the provider's standard API call.  FairSpec adds that provider calls    *)
(* resolve and that a completed gather() returns.  In both a gate returns  *)
(* any decision its function can return.  GateSpec is one call of Gate.ask *)
(* or Gate.ask_round on one outcome of input(), with what it returned.     *)
(* LongSpec is a run of main() with --no-clarify --no-extra, with or       *)
(* without --deep-research and --rounds, over configurations that ask for  *)
(* up to MaxRoundsLong rounds; it keeps self.cfg in the state and has      *)
(* Gemini's deep-research polling with its real interval and maximum wait. *)
(* LongFairSpec adds that calls and due timers are run.                    *)
(***************************************************************************)
EXTENDS Integers, Sequences, FiniteSets, TLC

\* ---------------------------------------------------------------- bounds
MaxProviders == 2      \* entries of config["providers"] explored
MaxRoundsCfg == 3      \* largest config["debate_rounds"] explored
MaxTopics    == 2      \* topics the user enters in phase C
MaxFailures  == 1      \* provider calls of one run whose primary path fails
MaxLineLen   == 3      \* characters of a line the user types at a gate
MaxRoundsLong == 7     \* largest config["debate_rounds"] of the long-debate runs

\* ------------------------------------------------------ program constants
RoundCap == 5
PollInterval == 15     \* seconds slept between two polls
MaxWait == 1800        \* max_wait of GeminiProvider._deep_research

\* the names create_provider knows
KnownNames  == {"claude", "gemini", "gpt"}
\* the names the explored configurations use: two that create_provider
\* knows and one it does not (no modelled line treats gpt and gemini
\* differently)
ConfigNames == {"claude", "gemini", "llama"}

create_provider(name) == name \in KnownNames

\* ------------------------------------------------------------ credentials
\* the api_key strings of the explored configurations: empty, a literal key,
\* and a reference to an environment variable that is set or is not
KeyForms == {"", "sk-literal", "${SET}", "${UNSET}"}

\* os.environ
Environ == [v \in {"SET"} |-> "sk-env"]

\* key.startswith("${") and key.endswith("}")
IsEnvRef(key) == key \in {"${SET}", "${UNSET}"}

\* key[2:-1]
EnvVar(key) == IF key = "${SET}" THEN "SET" ELSE "UNSET"

\* os.environ.get(v, default)
EnvironGet(v, default) == IF v \in DOMAIN Environ THEN Environ[v] ELSE default

\* <Provider>._resolve_key
resolve_keyMutRaw(key) == key
resolve_key(key) == IF IsEnvRef(key) THEN EnvironGet(EnvVar(key), "") ELSE key

\* A provider entry of the configuration: its key in the providers mapping,
\* its enabled flag and its api_key.
ProviderCfg == [name : ConfigNames, enabled : BOOLEAN, api_key : KeyForms]

Distinct(s) == \A i, j \in DOMAIN s : i # j => s[i].name # s[j].name

ProviderSeqs ==
    {s \in UNION {[1..n -> ProviderCfg] : n \in 0..MaxProviders} : Distinct(s)}

Configs ==
    [providers : ProviderSeqs, debate_rounds : 0..MaxRoundsCfg,
     deep_research : {FALSE}]

\* the configurations of the long-debate runs: gemini alone or with claude,
\* in either order, up to MaxRoundsLong rounds asked for
LongProviderSeqs ==
    LET C == [name |-> "claude", enabled |-> TRUE, api_key |-> "sk-literal"]
        G(k) == [name |-> "gemini", enabled |-> TRUE, api_key |-> k]
    IN  UNION {{<<G(k)>>, <<C, G(k)>>, <<G(k), C>>} : k \in KeyForms}

LongConfigs ==
    [providers : LongProviderSeqs, debate_rounds : 0..MaxRoundsLong,
     deep_research : {FALSE}]

NoCfg == [providers |-> <<>>, debate_rounds |-> 0, deep_research |-> FALSE]

\* ------------------------------------------------------------------ texts
NoText == [req |-> "", by |-> "", rnd |-> 0, src |-> "", br |-> FALSE]

Text(req, by, rnd, src, br) ==
    [req |-> req, by |-> by, rnd |-> rnd, src |-> src, br |-> br]

\* f"[조사 실패: {e}]"
FailMarker(name) == Text("research", name, 0, "fail", TRUE)

startswithBracket(t) == t.br

MinMutFirst(a, b) == a
Min(a, b) == IF a < b THEN a ELSE b

RECURSIVE SelectActive(_)
SelectActive(s) ==
    IF s = <<>> THEN <<>>
    ELSE LET h == Head(s)
             rest == SelectActive(Tail(s))
         IN  IF h.enabled /\ create_provider(h.name)
             THEN <<[name |-> h.name, key |-> resolve_key(h.api_key) # ""]>>
                  \o rest
             ELSE rest

\* whether create_provider raises for an entry __init__ hands to it
Rejected(s) == \E i \in DOMAIN s : s[i].enabled /\ ~create_provider(s[i].name)

\* ------------------------------------------------------- the gate's input
\* what input() does: it returns a line, or raises EOFError or
\* KeyboardInterrupt
Chars == {"q", "Q", "s", "S", " ", "x"}
Lines == UNION {[1..n -> Chars] : n \in 0..MaxLineLen}
GateInputs ==
    [ev : {"line"}, line : Lines] \cup [ev : {"eof", "int"}, line : {<<>>}]
NoInput == [ev |-> "none", line |-> <<>>]

RECURSIVE lstrip(_)
lstrip(s) == IF s # <<>> /\ Head(s) = " " THEN lstrip(Tail(s)) ELSE s

RECURSIVE rstrip(_)
rstrip(s) ==
    IF s # <<>> /\ s[Len(s)] = " " THEN rstrip(SubSeq(s, 1, Len(s) - 1)) ELSE s

strip(s) == rstrip(lstrip(s))

lowerChar(c) == IF c = "Q" THEN "q" ELSE IF c = "S" THEN "s" ELSE c

lowerMutIdentity(s) == s
lower(s) == [i \in DOMAIN s |-> lowerChar(s[i])]

\* try: ch = input(...).strip().lower()  except (EOFError, KeyboardInterrupt): ch = "q"
GateChoice(inp) ==
    IF inp.ev \in {"eof", "int"} THEN <<"q">> ELSE lower(strip(inp.line))

\* Gate.ask
ask(inp) ==
    LET ch == GateChoice(inp)
    IN  IF ch = <<"q">> THEN "q" ELSE IF ch = <<"s">> THEN "s" ELSE "c"

\* Gate.ask_round
ask_round(inp) ==
    LET ch == GateChoice(inp)
    IN  IF ch = <<"q">> THEN "q" ELSE "c"

VARIABLES
    pc,          \* control point of main()/run()
    ai,          \* self.ai: the active providers, in insertion order
    rounds,      \* self.rounds
    outDir,      \* whether self.out exists on disk
    skipClarify, skipExtra,
    ctx,         \* self.ctx
    research,    \* self.research
    debate,      \* self.debate
    consensus,   \* self.consensus
    persisted,   \* content of state.json: <<>> or <<snapshot>>
    batch,       \* the provider call(s) being awaited: [kind, rnd]
    task,        \* per provider name, the state of its task in the batch
    rnd,         \* loop variable of phaseB_debate / phaseC_extra
    cons,        \* locals of _round_consensus
    extra,       \* locals of phaseC_extra / _focused
    okCount,     \* ok of phaseA_research
    \* history variables
    started,     \* phases begun, in order
    gated,       \* phases whose Gate.ask has returned
    abortedAt,   \* phase whose gate returned "q" ("" if none)
    consRound,   \* round number given to _round_consensus (0: not called)
    quitRound,   \* round whose round gate returned "q" (0: none)
    prompts,     \* debate prompts built and round gates shown:
                 \* [kind, rnd, to, refs, at, none]
    amendCalls,  \* amendment requests sent to the lead
    savedIn,     \* phase that made the latest _save_state call
    nfail,       \* provider calls whose primary path has failed so far
    g,           \* run()'s local g, from a gate's return to the test on it
    rejected,    \* whether create_provider raised during __init__
    \* one call of Gate.ask / Gate.ask_round taken alone
    gateKind,    \* which of the two was called ("" before any call)
    gateIn,      \* what input() did
    gateOut,     \* what the call returned
    cfg,         \* self.cfg where a run keeps it (NoCfg where it does not)
    deep,        \* self.deep
    elapsed,     \* elapsed of GeminiProvider._deep_research
    timedOut     \* providers whose deep research raised TimeoutError

mem == <<ctx, research, debate, consensus>>
hist == <<started, gated, abortedAt, consRound, quitRound, prompts, amendCalls>>
disk == <<persisted, savedIn>>
vars == <<pc, ai, rounds, outDir, skipClarify, skipExtra, ctx, research, debate,
          consensus, persisted, batch, task, rnd, cons, extra, okCount,
          started, gated, abortedAt, consRound, quitRound, prompts,
          amendCalls, savedIn, nfail, g, rejected, gateKind, gateIn, gateOut,
          cfg, deep, elapsed, timedOut>>

poll == <<elapsed, timedOut>>

gio == <<gateKind, gateIn, gateOut>>

\* what no step of run() changes
Config == <<ai, rounds, outDir, skipClarify, skipExtra, rejected, gio, cfg, deep>>

Names(s) == {s[i].name : i \in DOMAIN s}
AiNames == Names(ai)
Index(name) == CHOOSE i \in DOMAIN ai : ai[i].name = name
HasKey(name) == ai[Index(name)].key

NoBatch == [kind |-> "none", rnd |-> 0]
NoTasks == [n \in KnownNames |-> "none"]
NoCons  == [synth |-> NoText, feedbacks |-> <<>>, todo |-> <<>>]
NoExtra == [topics |-> 0, files |-> 0, results |-> <<>>]

Final == {"done_api", "done_q", "done_cli", "failed"}

\* _save_state: the document written to state.json
SnapshotMutNoDebate ==
    [query |-> "query", context |-> ctx, role_set |-> "general",
     research |-> research, debate |-> <<>>, consensus |-> consensus]
Snapshot ==
    [query |-> "query", context |-> ctx, role_set |-> "general",
     research |-> research, debate |-> debate, consensus |-> consensus]

Init ==
    /\ pc = "new"
    /\ ai = <<>>
    /\ rounds = 0
    /\ outDir = FALSE
    /\ skipClarify = FALSE
    /\ skipExtra = FALSE
    /\ ctx = ""
    /\ research = <<>>
    /\ debate = <<>>
    /\ consensus = NoText
    /\ persisted = <<>>
    /\ batch = NoBatch
    /\ task = NoTasks
    /\ rnd = 0
    /\ cons = NoCons
    /\ extra = NoExtra
    /\ okCount = 0
    /\ started = <<>>
    /\ gated = {}
    /\ abortedAt = ""
    /\ consRound = 0
    /\ quitRound = 0
    /\ prompts = {}
    /\ amendCalls = 0
    /\ savedIn = ""
    /\ nfail = 0
    /\ g = ""
    /\ rejected = FALSE
    /\ gateKind = ""
    /\ gateIn = NoInput
    /\ gateOut = ""
    /\ cfg = NoCfg
    /\ deep = FALSE
    /\ elapsed = 0
    /\ timedOut = {}

\* Orchestrator.__init__, self.cfg apart
Build(c, deep_research) ==
    /\ pc = "new"
    /\ deep' = (deep_research \/ c.deep_research)
    /\ outDir' = TRUE
    /\ ai' = SelectActive(c.providers)
    /\ rejected' = Rejected(c.providers)
    /\ rounds' = Min(c.debate_rounds, RoundCap)
    /\ pc' = IF ai' = <<>> THEN "config_error" ELSE "constructed"
    /\ UNCHANGED <<skipClarify, skipExtra, mem, disk, batch, task, rnd,
                   cons, extra, okCount, hist, nfail, g, gio, poll>>

\* Orchestrator.__init__; nothing reads self.cfg afterwards, and the state
\* does not keep it
Construct(c) == Build(c, FALSE) /\ UNCHANGED cfg

\* `if args.rounds: cfg["debate_rounds"] = min(args.rounds, 5)`; r is
\* args.rounds, 0 when the option is absent
MainConfig(c, r) ==
    IF r # 0 THEN [c EXCEPT !.debate_rounds = Min(r, RoundCap)] ELSE c

\* main, up to the constructed Orchestrator, with self.cfg kept in the state
Main(c, r, d) ==
    /\ Build(MainConfig(c, r), d)
    /\ cfg' = MainConfig(c, r)

\* Orchestrator.run, up to the first phase
Run(sc, se) ==
    /\ pc = "constructed"
    /\ skipClarify' = sc
    /\ skipExtra' = se
    /\ pc' = IF sc THEN "phaseA" ELSE "phase0"
    /\ UNCHANGED <<ai, rounds, outDir, mem, disk, batch, task, rnd, cons,
                   extra, okCount, hist, nfail, g, rejected, gio, cfg, deep,
                   poll>>

\* `if g == "q": return self.out`
AfterGateMutNoAbort(d, next) == next
AfterGateMutSkipHalts(d, next) == IF d \in {"q", "s"} THEN "aborted" ELSE next
AfterGate(d, next) == IF d = "q" THEN "aborted" ELSE next

\* what Gate.ask and Gate.ask_round can return
PhaseDecisions == {ask(inp) : inp \in GateInputs}
RoundDecisions == {ask_round(inp) : inp \in GateInputs}

\* ------------------------------------------------- provider calls
Ok(t)  == [ok |-> TRUE, text |-> t]
Failed == [ok |-> FALSE, text |-> NoText]

\* <Provider>.query: without a credential the CLI is called from query itself
Query(key, api, cli) == IF ~key THEN cli ELSE api

\* AIProvider.query_with_fallback
query_with_fallbackMutNoFallback(primary, fallback) == primary
query_with_fallback(primary, fallback) ==
    IF primary.ok THEN primary ELSE fallback

\* the tasks gather() creates, one per given provider name
Tasks(names) == [n \in KnownNames |-> IF n \in names THEN "ready" ELSE "none"]

AllResolvedMutAny ==
    \E n \in AiNames : task[n] \in Final
AllResolved ==
    \A n \in AiNames : task[n] \in Final \cup {"none"}

\* the loop runs the ready tasks in creation order
IsNextReady(p) ==
    /\ task[p] = "ready"
    /\ \A i \in 1..(Index(p) - 1) : task[ai[i].name] # "ready"

NoneReady == \A n \in KnownNames : task[n] # "ready"

\* lead_n = "claude" if "claude" in self.ai else list(self.ai)[0]
LeadName == IF "claude" \in AiNames THEN "claude" ELSE ai[1].name

\* lead = list(self.ai.values())[0]
FocusedLead == ai[1].name

NonLead == SelectSeq([i \in DOMAIN ai |-> ai[i].name], LAMBDA n : n # LeadName)

\* the critiques a respond prompt quotes
RespondCritsMutNoRound(name, r) ==
    SelectSeq(debate, LAMBDA rec : rec.provider # name)
RespondCritsMutOwn(name, r) ==
    SelectSeq(debate, LAMBDA rec : rec.round = r - 1)
RespondCrits(name, r) ==
    SelectSeq(debate, LAMBDA rec : rec.round = r - 1 /\ rec.provider # name)

\* `crits or '(없음)'`: the joined text is empty when no entry is quoted
UsesPlaceholder(crits) == crits = <<>>

\* the prompt a task builds when it first runs
BuiltPrompts(p) ==
    CASE batch.kind = "critique" ->
           {[kind |-> "critique", rnd |-> batch.rnd, to |-> p, refs |-> <<>>,
             at |-> Len(debate), none |-> FALSE]}
      [] batch.kind = "respond" ->
           {[kind |-> "respond", rnd |-> batch.rnd, to |-> p,
             refs |-> RespondCrits(p, batch.rnd), at |-> Len(debate),
             none |-> UsesPlaceholder(RespondCrits(p, batch.rnd))]}
      [] OTHER -> {}

\* `history` of _round_consensus
ConsensusPrompt(r) ==
    [kind |-> "consensus", rnd |-> r, to |-> LeadName, refs |-> debate,
     at |-> Len(debate), none |-> FALSE]

\* what Gate.ask_round(r, ...) shows the user
RoundGatePrompt(r) ==
    [kind |-> "roundgate", rnd |-> r, to |-> "user", refs |-> <<>>,
     at |-> Len(debate), none |-> FALSE]

\* self.research[name] = ...: a dict assignment
PutMutReplace(f, k, v) == [n \in {k} |-> v]
Put(f, k, v) == [n \in DOMAIN f \cup {k} |-> IF n = k THEN v ELSE f[n]]

\* phaseA_research._do: what is stored under the provider's name
ResearchEntryMutDrop(name, r) == r.text
ResearchEntry(name, r) == IF r.ok THEN r.text ELSE FailMarker(name)

\* `if feedbacks:`
NeedsAmendMutAlways(fb) == TRUE
NeedsAmendMutNever(fb) == FALSE
NeedsAmend(fb) == fb # <<>>

\* the round number of the early-termination consensus
EarlyConsensusRoundMutSame(r) == r
EarlyConsensusRound(r) == r + 1

\* `if not skip_extra:`
AfterDebateMutNoExtra(se) == "phaseD"
AfterDebate(se) == IF se THEN "phaseD" ELSE "phaseC"

SaveState ==
    /\ persisted' = <<Snapshot'>>
    /\ savedIn' = started[Len(started)]

Crash ==
    /\ pc' = "crashed"
    /\ UNCHANGED <<mem, disk, rnd, cons, extra, okCount, amendCalls>>

\* what the awaiting code does with the outcome r of provider p's call;
\* st is the task's final state
OnClarify(p, r, st) ==
    /\ batch.kind = "clarify"
    /\ task' = [task EXCEPT ![p] = st]
    /\ UNCHANGED <<pc, batch, mem, disk, rnd, cons, extra, okCount, amendCalls>>

OnResearch(p, r, st) ==
    /\ batch.kind = "research"
    /\ research' = Put(research, p, ResearchEntry(p, r))
    /\ task' = [task EXCEPT ![p] = st]
    /\ UNCHANGED <<pc, batch, ctx, debate, consensus, disk, rnd, cons, extra,
                   okCount, amendCalls>>

\* self.debate.append(rec)
DebateAppendMutPrepend(d, rec) == <<rec>> \o d
DebateAppend(d, rec) == Append(d, rec)

OnRound(p, r, st) ==
    /\ batch.kind \in {"critique", "respond"}
    /\ debate' = IF r.ok
                 THEN DebateAppend(debate, [round |-> batch.rnd, type |-> batch.kind,
                                            provider |-> p, content |-> r.text])
                 ELSE debate
    /\ task' = [task EXCEPT ![p] = st]
    /\ UNCHANGED <<pc, batch, ctx, research, consensus, disk, rnd, cons, extra,
                   okCount, amendCalls>>

\* the rest of _round_consensus once the verification loop has ended, and
\* the rest of phaseB_debate after it
AfterVerify(fb) ==
    IF NeedsAmend(fb)
    THEN /\ batch' = [kind |-> "amend", rnd |-> batch.rnd]
         /\ task' = Tasks({LeadName})
         /\ amendCalls' = amendCalls + 1
         /\ UNCHANGED <<pc, disk>>
    ELSE /\ SaveState
         /\ pc' = "gateB"
         /\ task' = NoTasks
         /\ UNCHANGED <<batch, amendCalls>>

OnSynth(p, r, st) ==
    /\ batch.kind = "synth"
    /\ IF r.ok
       THEN /\ consensus' = r.text
            /\ cons' = [synth |-> r.text, feedbacks |-> <<>>, todo |-> NonLead]
            /\ UNCHANGED <<ctx, research, debate, rnd, extra, okCount>>
            /\ IF NonLead # <<>>
               THEN /\ batch' = [kind |-> "verify", rnd |-> batch.rnd]
                    /\ task' = Tasks({Head(NonLead)})
                    /\ UNCHANGED <<pc, disk, amendCalls>>
               ELSE AfterVerify(<<>>)
       ELSE /\ Crash
            /\ task' = [task EXCEPT ![p] = st]
            /\ UNCHANGED batch

OnVerify(p, r, st) ==
    /\ batch.kind = "verify"
    /\ UNCHANGED <<mem, rnd, extra, okCount>>
    /\ LET fb == IF r.ok
                 THEN Append(cons.feedbacks, [by |-> p, text |-> r.text])
                 ELSE cons.feedbacks
           todo == Tail(cons.todo)
       IN  /\ cons' = [cons EXCEPT !.feedbacks = fb, !.todo = todo]
           /\ IF todo # <<>>
              THEN /\ task' = Tasks({Head(todo)})
                   /\ UNCHANGED <<pc, batch, disk, amendCalls>>
              ELSE AfterVerify(fb)

OnAmend(p, r, st) ==
    /\ batch.kind = "amend"
    /\ task' = [task EXCEPT ![p] = st]
    /\ IF r.ok
       THEN /\ consensus' = r.text
            /\ UNCHANGED <<ctx, research, debate, rnd, cons, extra, okCount,
                           amendCalls>>
            /\ SaveState
            /\ pc' = "gateB"
       ELSE Crash
    /\ UNCHANGED batch

OnExtra(p, r, st) ==
    /\ batch.kind = "extra"
    /\ task' = [task EXCEPT ![p] = st]
    /\ extra' = IF r.ok
                THEN [extra EXCEPT !.files = @ + 1,
                                   !.results = Append(@, [by |-> p, text |-> r.text])]
                ELSE extra
    /\ UNCHANGED <<pc, batch, mem, disk, rnd, cons, okCount, amendCalls>>

\* `if i < len(topics):`
MoreTopicsMutAlways(i, n) == TRUE
MoreTopics(i, n) == i < n

OnExtraSyn(p, r, st) ==
    /\ batch.kind = "extrasyn"
    /\ task' = [task EXCEPT ![p] = st]
    /\ IF r.ok
       THEN /\ extra' = [extra EXCEPT !.files = @ + 1]
            /\ UNCHANGED <<mem, rnd, cons, okCount, amendCalls>>
            /\ SaveState
            /\ pc' = IF MoreTopics(rnd, extra.topics) THEN "topicgate" ELSE "gateC"
       ELSE Crash
    /\ UNCHANGED batch

OnReportMutOverwrite(p, r, st) ==
    /\ batch.kind = "report"
    /\ task' = [task EXCEPT ![p] = st]
    /\ IF r.ok
       THEN /\ consensus' = r.text
            /\ UNCHANGED <<ctx, research, debate, rnd, cons, extra, okCount,
                           amendCalls>>
            /\ SaveState
            /\ pc' = "gateD"
       ELSE Crash
    /\ UNCHANGED batch

OnReport(p, r, st) ==
    /\ batch.kind = "report"
    /\ task' = [task EXCEPT ![p] = st]
    /\ IF r.ok
       THEN /\ UNCHANGED <<mem, rnd, cons, extra, okCount, amendCalls>>
            /\ SaveState
            /\ pc' = "gateD"
       ELSE Crash
    /\ UNCHANGED batch

Resolve(p, r, st) ==
    \/ OnClarify(p, r, st)
    \/ OnResearch(p, r, st)
    \/ OnRound(p, r, st)
    \/ OnSynth(p, r, st)
    \/ OnVerify(p, r, st)
    \/ OnAmend(p, r, st)
    \/ OnExtra(p, r, st)
    \/ OnExtraSyn(p, r, st)
    \/ OnReport(p, r, st)

\* only research texts are tested for a leading "["
Brackets == IF batch.kind = "research" THEN BOOLEAN ELSE {FALSE}

Frame0 == <<Config, g, started, gated, abortedAt, consRound, quitRound>>
Frame == <<Frame0, poll>>

\* whether p's primary call is Gemini's deep research, which polls
Polls(p) == deep /\ batch.kind = "research" /\ p = "gemini"

\* a task runs for the first time; the API call succeeds
ApiOk(p, br) ==
    /\ pc = "await"
    /\ IsNextReady(p)
    /\ HasKey(p)
    /\ ~Polls(p)
    /\ prompts' = prompts \cup BuiltPrompts(p)
    /\ Resolve(p, query_with_fallback(
                     Query(TRUE, Ok(Text(batch.kind, p, batch.rnd, "api", br)), Failed),
                     Failed),
               "done_api")
    /\ UNCHANGED <<Frame, nfail>>

\* the API call raises: query_with_fallback starts the CLI
ApiFail(p) ==
    /\ pc = "await"
    /\ IsNextReady(p)
    /\ HasKey(p)
    /\ nfail < MaxFailures
    /\ nfail' = nfail + 1
    /\ prompts' = prompts \cup BuiltPrompts(p)
    /\ task' = [task EXCEPT ![p] = "cli"]
    /\ UNCHANGED <<Frame, pc, batch, mem, disk, rnd, cons, extra, okCount,
                   amendCalls>>

\* no credential: query starts the CLI itself
NoKey(p) ==
    /\ pc = "await"
    /\ IsNextReady(p)
    /\ ~HasKey(p)
    /\ prompts' = prompts \cup BuiltPrompts(p)
    /\ task' = [task EXCEPT ![p] = "cli_q"]
    /\ UNCHANGED <<Frame, pc, batch, mem, disk, rnd, cons, extra, okCount,
                   amendCalls, nfail>>

\* a CLI subprocess exits with status 0
CliOk(p, br) ==
    /\ pc = "await"
    /\ NoneReady
    /\ task[p] \in {"cli_q", "cli"}
    /\ LET out == Ok(Text(batch.kind, p, batch.rnd, "cli", br))
       IN  IF task[p] = "cli_q"
           THEN Resolve(p, query_with_fallback(Query(FALSE, Failed, out), Failed),
                        "done_q")
           ELSE Resolve(p, query_with_fallback(Failed, out), "done_cli")
    /\ UNCHANGED <<Frame, prompts, nfail>>

\* the CLI started by query fails: query raises, query_with_fallback
\* starts the CLI again
CliFailInQuery(p) ==
    /\ pc = "await"
    /\ NoneReady
    /\ task[p] = "cli_q"
    /\ nfail < MaxFailures
    /\ nfail' = nfail + 1
    /\ task' = [task EXCEPT ![p] = "cli"]
    /\ UNCHANGED <<Frame, prompts, pc, batch, mem, disk, rnd, cons, extra,
                   okCount, amendCalls>>

\* the CLI started by query_with_fallback fails: the call raises
CliFail(p) ==
    /\ pc = "await"
    /\ NoneReady
    /\ task[p] = "cli"
    /\ Resolve(p, query_with_fallback(Failed, Failed), "failed")
    /\ UNCHANGED <<Frame, prompts, nfail>>

\* ------------------------------------------- GeminiProvider._deep_research
\* p's task is at client.interactions.get: it has just started, or its
\* sleep is over and the loop condition still holds
AtPoll(p) ==
    /\ pc = "await"
    /\ Polls(p)
    /\ \/ IsNextReady(p) /\ HasKey(p)
       \/ NoneReady /\ task[p] = "poll" /\ elapsed + PollInterval < MaxWait

\* `elapsed` at that get
PollElapsedMutSkip(p) ==
    IF task[p] = "ready" THEN 0 ELSE elapsed + 2 * PollInterval
PollElapsed(p) == IF task[p] = "ready" THEN 0 ELSE elapsed + PollInterval

\* the prompt is built when the task first runs
PollPrompts(p) ==
    IF task[p] = "ready" THEN prompts \cup BuiltPrompts(p) ELSE prompts

\* status "completed": the output is returned
PollCompleted(p, br) ==
    /\ AtPoll(p)
    /\ prompts' = PollPrompts(p)
    /\ elapsed' = 0
    /\ Resolve(p, query_with_fallback(
                     Query(TRUE, Ok(Text(batch.kind, p, batch.rnd, "api", br)), Failed),
                     Failed),
               "done_api")
    /\ UNCHANGED <<Frame0, timedOut, nfail>>

\* status "failed": RuntimeError, query_with_fallback starts the CLI
PollFailed(p) ==
    /\ AtPoll(p)
    /\ nfail < MaxFailures
    /\ nfail' = nfail + 1
    /\ prompts' = PollPrompts(p)
    /\ elapsed' = 0
    /\ task' = [task EXCEPT ![p] = "cli"]
    /\ UNCHANGED <<Frame0, timedOut, pc, batch, mem, disk, rnd, cons, extra,
                   okCount, amendCalls>>

\* any other status: await asyncio.sleep(15)
PollWait(p) ==
    /\ AtPoll(p)
    /\ prompts' = PollPrompts(p)
    /\ elapsed' = PollElapsed(p)
    /\ task' = [task EXCEPT ![p] = "poll"]
    /\ UNCHANGED <<Frame0, timedOut, pc, batch, mem, disk, rnd, cons, extra,
                   okCount, amendCalls, nfail>>

\* the sleep is over and elapsed has reached max_wait: TimeoutError,
\* query_with_fallback starts the CLI
PollTimeout(p) ==
    /\ pc = "await"
    /\ Polls(p)
    /\ NoneReady
    /\ task[p] = "poll"
    /\ elapsed + PollInterval >= MaxWait
    /\ timedOut' = timedOut \cup {p}
    /\ elapsed' = 0
    /\ task' = [task EXCEPT ![p] = "cli"]
    /\ UNCHANGED <<Frame0, prompts, pc, batch, mem, disk, rnd, cons, extra,
                   okCount, amendCalls, nfail>>

\* --------------------------------------------------------- the phases
\* phase0_clarify, up to gather
Phase0 ==
    /\ pc = "phase0"
    /\ started' = Append(started, "Clarify")
    /\ batch' = [kind |-> "clarify", rnd |-> 0]
    /\ task' = Tasks(AiNames)
    /\ pc' = "await"
    /\ UNCHANGED <<Config, poll, g, mem, disk, rnd, cons, extra, okCount, gated,
                   abortedAt, consRound, quitRound, prompts, amendCalls, nfail>>

\* gather returns; the question file is written and the user is asked to edit it
JoinClarify ==
    /\ pc = "await"
    /\ batch.kind = "clarify"
    /\ AllResolved
    /\ pc' = "clarify_input"
    /\ UNCHANGED <<Config, poll, g, mem, disk, batch, task, rnd, cons, extra, okCount,
                   hist, nfail>>

\* the user's line (ch) and what _parse_qa_file reads from the edited file
ClarifyInput(ch, parsed) ==
    /\ pc = "clarify_input"
    /\ ctx' = IF ch # "s" THEN parsed ELSE ctx
    /\ UNCHANGED <<research, debate, consensus>>
    /\ SaveState
    /\ pc' = "gate0"
    /\ UNCHANGED <<Config, poll, g, batch, task, rnd, cons, extra, okCount, hist, nfail>>

\* a phase gate returns g; run() goes on to `next` or returns
PhaseGate(at, phase, d, next) ==
    /\ pc = at
    /\ gated' = gated \cup {phase}
    /\ abortedAt' = IF d = "q" THEN phase ELSE abortedAt
    /\ g' = d
    /\ pc' = AfterGate(d, next)
    /\ UNCHANGED <<Config, poll, mem, disk, batch, task, rnd, cons, extra, okCount,
                   started, consRound, quitRound, prompts, amendCalls, nfail>>

Gate0(d) == PhaseGate("gate0", "Clarify", d, "phaseA")

\* phaseA_research, up to gather
PhaseA ==
    /\ pc = "phaseA"
    /\ g' = ""
    /\ started' = Append(started, "Research")
    /\ batch' = [kind |-> "research", rnd |-> 0]
    /\ task' = Tasks(AiNames)
    /\ pc' = "await"
    /\ UNCHANGED <<Config, poll, mem, disk, rnd, cons, extra, okCount, gated,
                   abortedAt, consRound, quitRound, prompts, amendCalls, nfail>>

\* ok = sum(1 for v in self.research.values() if not v.startswith("["))
CountOk == Cardinality({n \in DOMAIN research : ~startswithBracket(research[n])})

JoinResearch ==
    /\ pc = "await"
    /\ batch.kind = "research"
    /\ AllResolved
    /\ okCount' = CountOk
    /\ UNCHANGED mem
    /\ SaveState
    /\ pc' = "gateA"
    /\ UNCHANGED <<Config, poll, g, batch, task, rnd, cons, extra, hist, nfail>>

GateA(d) == PhaseGate("gateA", "Research", d, "phaseB")

\* phaseB_debate, up to the round loop
PhaseB ==
    /\ pc = "phaseB"
    /\ g' = ""
    /\ started' = Append(started, "Debate")
    /\ rnd' = 1
    /\ pc' = "loopB"
    /\ UNCHANGED <<Config, poll, mem, disk, batch, task, cons, extra, okCount, gated,
                   abortedAt, consRound, quitRound, prompts, amendCalls, nfail>>

\* _round_consensus(r), up to the lead's synthesis call
StartConsensus(r) ==
    /\ consRound' = r
    /\ prompts' = prompts \cup {ConsensusPrompt(r)}
    /\ cons' = NoCons
    /\ batch' = [kind |-> "synth", rnd |-> r]
    /\ task' = Tasks({LeadName})
    /\ pc' = "await"

\* is_last = (rnd == self.rounds)
IsLastMutNever(r, R) == FALSE
IsLast(r, R) == r = R

\* what round r of R does: the if / elif / else of the loop body
RoundKindMutNoConsensus(r, R) == IF r = 1 THEN "critique" ELSE "respond"
RoundKind(r, R) ==
    IF r = 1 THEN "critique"
    ELSE IF IsLast(r, R) THEN "consensus" ELSE "respond"

\* one turn of `for rnd in range(1, self.rounds + 1)`
DebateLoop ==
    /\ pc = "loopB"
    /\ UNCHANGED <<Config, poll, g, mem, rnd, extra, okCount, started, gated, abortedAt,
                   quitRound, amendCalls, nfail>>
    /\ IF rnd > rounds
       THEN \* the loop is over: _save_state and the phase gate
            /\ SaveState
            /\ pc' = "gateB"
            /\ UNCHANGED <<batch, task, cons, consRound, prompts>>
       ELSE IF RoundKind(rnd, rounds) = "consensus"
       THEN /\ StartConsensus(rnd)
            /\ UNCHANGED disk
       ELSE /\ batch' = [kind |-> RoundKind(rnd, rounds), rnd |-> rnd]
            /\ task' = Tasks(AiNames)
            /\ pc' = "await"
            /\ UNCHANGED <<disk, cons, consRound, prompts>>

\* gather of a critique or respond round returns: _save_state, then the
\* round gate unless this was the last round
JoinRound ==
    /\ pc = "await"
    /\ batch.kind \in {"critique", "respond"}
    /\ AllResolved
    /\ UNCHANGED mem
    /\ SaveState
    /\ IF ~IsLast(rnd, rounds)
       THEN /\ pc' = "roundgate"
            /\ rnd' = rnd
            /\ prompts' = prompts \cup {RoundGatePrompt(rnd)}
       ELSE /\ pc' = "loopB"
            /\ rnd' = rnd + 1
            /\ UNCHANGED prompts
    /\ UNCHANGED <<Config, poll, g, batch, task, cons, extra, okCount, started, gated,
                   abortedAt, consRound, quitRound, amendCalls, nfail>>

\* Gate.ask_round returns d
RoundGate(d) ==
    /\ pc = "roundgate"
    /\ UNCHANGED <<Config, poll, g, mem, disk, extra, okCount, started, gated, abortedAt,
                   amendCalls, nfail>>
    /\ IF d = "q"
       THEN /\ quitRound' = rnd
            /\ StartConsensus(EarlyConsensusRound(rnd))
            /\ UNCHANGED rnd
       ELSE /\ rnd' = rnd + 1
            /\ pc' = "loopB"
            /\ UNCHANGED <<batch, task, cons, consRound, quitRound, prompts>>

GateB(d) == PhaseGate("gateB", "Debate", d, AfterDebate(skipExtra))

\* phaseC_extra: the user enters n topics; _focused for the first one
PhaseC(n) ==
    /\ pc = "phaseC"
    /\ g' = ""
    /\ started' = Append(started, "Extra")
    /\ extra' = [topics |-> n, files |-> 0, results |-> <<>>]
    /\ IF n = 0
       THEN \* no files: return "c" without a gate
            /\ pc' = "phaseD"
            /\ UNCHANGED <<batch, task, rnd>>
       ELSE /\ rnd' = 1
            /\ batch' = [kind |-> "extra", rnd |-> 1]
            /\ task' = Tasks(AiNames)
            /\ pc' = "await"
    /\ UNCHANGED <<Config, poll, mem, disk, cons, okCount, gated, abortedAt,
                   consRound, quitRound, prompts, amendCalls, nfail>>

\* gather of _focused returns: the lead is asked for the synthesis
JoinExtra ==
    /\ pc = "await"
    /\ batch.kind = "extra"
    /\ AllResolved
    /\ batch' = [kind |-> "extrasyn", rnd |-> batch.rnd]
    /\ task' = Tasks({FocusedLead})
    /\ UNCHANGED <<Config, poll, g, pc, mem, disk, rnd, cons, extra, okCount, hist, nfail>>

\* Gate.ask_round between two topics
TopicGate(d) ==
    /\ pc = "topicgate"
    /\ IF d = "q"
       THEN /\ pc' = "gateC"
            /\ UNCHANGED <<batch, task, rnd, extra>>
       ELSE /\ rnd' = rnd + 1
            /\ extra' = [extra EXCEPT !.results = <<>>]
            /\ batch' = [kind |-> "extra", rnd |-> rnd + 1]
            /\ task' = Tasks(AiNames)
            /\ pc' = "await"
    /\ UNCHANGED <<Config, poll, g, mem, disk, cons, okCount, hist, nfail>>

GateC(d) == PhaseGate("gateC", "Extra", d, "phaseD")

\* phaseD_report, up to the lead's call
PhaseD ==
    /\ pc = "phaseD"
    /\ g' = ""
    /\ started' = Append(started, "Report")
    /\ batch' = [kind |-> "report", rnd |-> 0]
    /\ task' = Tasks({LeadName})
    /\ pc' = "await"
    /\ UNCHANGED <<Config, poll, mem, disk, rnd, cons, extra, okCount, gated,
                   abortedAt, consRound, quitRound, prompts, amendCalls, nfail>>

\* the gate of phase D: run() ignores what it returns
GateD(d) ==
    /\ pc = "gateD"
    /\ gated' = gated \cup {"Report"}
    /\ abortedAt' = IF d = "q" THEN "Report" ELSE abortedAt
    /\ pc' = "done"
    /\ UNCHANGED <<Config, poll, g, mem, disk, batch, task, rnd, cons, extra, okCount,
                   started, consRound, quitRound, prompts, amendCalls, nfail>>

\* a provider call takes a step: a task starts, or a subprocess exits
CallStep ==
    \/ \E p \in KnownNames, br \in BOOLEAN : br \in Brackets /\ ApiOk(p, br)
    \/ \E p \in KnownNames : ApiFail(p)
    \/ \E p \in KnownNames : NoKey(p)
    \/ \E p \in KnownNames, br \in BOOLEAN : br \in Brackets /\ CliOk(p, br)
    \/ \E p \in KnownNames : CliFailInQuery(p)
    \/ \E p \in KnownNames : CliFail(p)

\* phase 0, run unless --no-clarify
ClarifySteps ==
    \/ Phase0
    \/ JoinClarify
    \/ \E ch \in {"", "s"}, parsed \in {"", "answers"} : ClarifyInput(ch, parsed)
    \/ \E d \in PhaseDecisions : Gate0(d)

\* phases A, B and D
CoreSteps ==
    \/ PhaseA
    \/ JoinResearch
    \/ \E d \in PhaseDecisions : GateA(d)
    \/ PhaseB
    \/ DebateLoop
    \/ JoinRound
    \/ \E d \in RoundDecisions : RoundGate(d)
    \/ \E d \in PhaseDecisions : GateB(d)
    \/ PhaseD
    \/ \E d \in PhaseDecisions : GateD(d)

\* phase C, run unless --no-extra
ExtraSteps ==
    \/ \E n \in 0..MaxTopics : PhaseC(n)
    \/ JoinExtra
    \/ \E d \in RoundDecisions : TopicGate(d)
    \/ \E d \in PhaseDecisions : GateC(d)

Next ==
    \/ pc = "new" /\ \E c \in Configs : Construct(c)
    \/ \E sc, se \in BOOLEAN : Run(sc, se)
    \/ ClarifySteps
    \/ CoreSteps
    \/ ExtraSteps
    \/ CallStep

Spec == Init /\ [][Next]_vars

\* a deep-research poll takes a step
PollStep ==
    \/ \E p \in KnownNames, br \in BOOLEAN : PollCompleted(p, br)
    \/ \E p \in KnownNames : PollFailed(p)
    \/ \E p \in KnownNames : PollWait(p)
    \/ \E p \in KnownNames : PollTimeout(p)

\* the runs of `researcher.py --no-clarify --no-extra [-d] [-r N]` over the
\* long-debate configurations
LongNext ==
    \/ pc = "new" /\ \E c \in LongConfigs, r \in 0..MaxRoundsLong, d \in BOOLEAN :
                        Main(c, r, d)
    \/ Run(TRUE, TRUE)
    \/ CoreSteps
    \/ CallStep
    \/ PollStep

LongSpec == Init /\ [][LongNext]_vars

\* gather() returns to the coroutine awaiting it
JoinStep == JoinClarify \/ JoinResearch \/ JoinRound \/ JoinExtra

\* every provider call resolves, and the event loop resumes a coroutine
\* whose gather() is complete
FairSpec == Spec /\ WF_vars(CallStep) /\ WF_vars(JoinStep)

\* every started call goes on, and the event loop wakes a coroutine whose
\* asyncio.sleep is over
LongFairSpec == LongSpec /\ WF_vars(CallStep) /\ WF_vars(PollStep)

\* ---------------------------------------------- one gate call, taken alone
GateRest ==
    <<pc, ai, rounds, outDir, skipClarify, skipExtra, mem, disk, batch, task,
      rnd, cons, extra, okCount, hist, nfail, g, rejected, cfg, deep, poll>>

GateAsk(inp) ==
    /\ gateKind' = "ask"
    /\ gateIn' = inp
    /\ gateOut' = ask(inp)
    /\ UNCHANGED GateRest

GateAskRound(inp) ==
    /\ gateKind' = "ask_round"
    /\ gateIn' = inp
    /\ gateOut' = ask_round(inp)
    /\ UNCHANGED GateRest

GateNext ==
    \/ \E inp \in GateInputs : GateAsk(inp)
    \/ \E inp \in GateInputs : GateAskRound(inp)

GateSpec == Init /\ [][GateNext]_vars

\* ------------------------------------------------------------ properties
Unresolved == {"ready", "cli_q", "cli", "poll"}
GatePcs == {"gate0", "gateA", "gateB", "gateC", "gateD", "roundgate", "topicgate"}
PhaseOrder == <<"Clarify", "Research", "Debate", "Extra", "Report">>
Pos(ph) == CHOOSE i \in DOMAIN PhaseOrder : PhaseOrder[i] = ph

\* C1: when the research phase reaches its gate, the research record has one
\* entry per active provider, the failure markers are exactly the entries of
\* the providers whose primary call and fallback both failed, and the
\* fan-out has let no exception escape.
C1_ResearchRecordComplete ==
    /\ pc = "gateA" =>
         /\ DOMAIN research = AiNames
         /\ Cardinality(DOMAIN research) = Len(ai)
         /\ {n \in AiNames : research[n] = FailMarker(n)}
              = {n \in AiNames : task[n] = "failed"}
    /\ batch.kind = "research" => pc # "crashed"

C1_Witness ==
    /\ pc = "gateA"
    /\ Len(ai) = 2
    /\ \E n, m \in AiNames : task[n] = "failed" /\ task[m] \in Final \ {"failed"}

\* C2: run() never ends by an exception escaping, whatever provider calls
\* fail.
C2_NoEscapingException == pc # "crashed"

\* C3 as claimed: phases start in the order Clarify, Research, Debate, Extra,
\* Report, none twice, only Clarify and Extra omitted and only by their skip
\* flags, and every phase that ran before another has had its gate answered.
OrderOK ==
    \A i \in 1..(Len(started) - 1) : Pos(started[i]) < Pos(started[i + 1])

OmitOK ==
    /\ started # <<>> =>
         \/ started[1] = "Clarify" /\ ~skipClarify
         \/ started[1] = "Research" /\ skipClarify
    /\ \A i \in 1..(Len(started) - 1) :
         \/ Pos(started[i + 1]) = Pos(started[i]) + 1 /\ started[i + 1] # "Extra"
         \/ started[i] = "Debate" /\ started[i + 1] = "Extra" /\ ~skipExtra
         \/ started[i] = "Debate" /\ started[i + 1] = "Report" /\ skipExtra
    /\ pc = "done" => started[Len(started)] = "Report" /\ "Report" \in gated

C4_AbortStopsRun ==
    /\ [](abortedAt # "" =>
            /\ pc \in {"aborted", "done"}
            /\ started[Len(started)] = abortedAt
            /\ savedIn = abortedAt
            /\ \A n \in KnownNames : task[n] \notin Unresolved
            /\ persisted = <<[query |-> "query", context |-> ctx,
                              role_set |-> "general", research |-> research,
                              debate |-> debate, consensus |-> consensus]>>)
    /\ [][abortedAt = ""]_vars

C4_Witness == abortedAt = "Debate" /\ pc = "aborted" /\ debate # <<>>

\* C5: the debate phase never reaches its phase gate without having run the
\* consensus step.
C5_ConsensusBeforeGate == pc = "gateB" => consRound # 0

\* C6: after the round gate of round r has returned abort, r is not the last
\* round, the consensus step runs with round r + 1, and no critique or
\* respond prompt of a round greater than r exists.
C6_EarlyTermination ==
    quitRound # 0 =>
      /\ 1 <= quitRound /\ quitRound < rounds
      /\ consRound = quitRound + 1
      /\ \A pr \in prompts :
           pr.kind \in {"critique", "respond"} => pr.rnd <= quitRound

C6_Witness == quitRound = 1 /\ rounds = 3 /\ pc = "gateB"

\* C7: a provider whose primary call failed and whose CLI fallback succeeded
\* has the fallback's output as its entry of the batch: its research entry,
\* or its debate entry of the round.
C7_FallbackOutputRecorded ==
    \A n \in AiNames :
      task[n] = "done_cli" =>
        /\ batch.kind = "research" =>
             /\ n \in DOMAIN research
             /\ research[n] # FailMarker(n)
             /\ research[n].src = "cli" /\ research[n].by = n
             /\ research[n].req = "research"
        /\ batch.kind \in {"critique", "respond"} =>
             \E i \in DOMAIN debate :
               /\ debate[i].provider = n
               /\ debate[i].round = batch.rnd
               /\ debate[i].type = batch.kind
               /\ debate[i].content = Text(batch.kind, n, batch.rnd, "cli", FALSE)

C7_Witness ==
    /\ pc = "roundgate"
    /\ batch.kind = "critique"
    /\ \E n \in AiNames : task[n] = "done_cli"
    /\ \E n \in DOMAIN research : research[n].src = "cli"

\* C8: every debate prompt of round N quotes only entries of rounds below N,
\* and every entry of a round below N was in the debate sequence when the
\* prompt was built.
C8_RoundOrdering ==
    \A pr \in prompts :
      /\ \A i \in DOMAIN pr.refs : pr.refs[i].round < pr.rnd
      /\ \A i \in DOMAIN debate : debate[i].round < pr.rnd => i <= pr.at

C8_Witness ==
    \E pr \in prompts :
      /\ pr.kind = "respond"
      /\ pr.refs # <<>>
      /\ \E i \in 1..pr.at : debate[i].round = pr.rnd

\* C9: whenever a phase gate, a round gate or a topic gate is waiting for
\* the user, state.json holds the state in memory.
C9_PersistedAtGates ==
    pc \in GatePcs =>
      persisted = <<[query |-> "query", context |-> ctx, role_set |-> "general",
                     research |-> research, debate |-> debate,
                     consensus |-> consensus]>>

C9_Witness == pc = "roundgate" /\ debate # <<>> /\ ctx # ""

\* C10: when the consensus step ends with no verification feedback, no
\* amendment was requested and the consensus is the lead's synthesis.
C10_NoFeedbackKeepsSynthesis ==
    (pc = "gateB" /\ consRound # 0 /\ cons.feedbacks = <<>>) =>
      /\ amendCalls = 0
      /\ consensus = cons.synth
      /\ consensus.req = "synth"

C10_Witness ==
    /\ pc = "gateB"
    /\ consRound # 0
    /\ cons.feedbacks = <<>>
    /\ Len(ai) = 2

C12_RoundSchedule ==
    (rounds >= 2 /\ quitRound = 0) =>
      /\ \A pr \in prompts :
           /\ pr.kind = "critique" => pr.rnd = 1
           /\ pr.kind = "respond" => pr.rnd \in 2..(rounds - 1)
           /\ pr.kind = "roundgate" => pr.rnd \in 1..(rounds - 1)
           /\ pr.kind = "consensus" => pr.rnd = rounds
      /\ consRound \in {0, rounds}
      /\ pc = "gateB" =>
           /\ consRound = rounds
           /\ \A n \in AiNames :
                \E pr \in prompts : pr.kind = "critique" /\ pr.to = n
           /\ \A r \in 2..(rounds - 1), n \in AiNames :
                \E pr \in prompts :
                  pr.kind = "respond" /\ pr.rnd = r /\ pr.to = n
           /\ {pr.rnd : pr \in {q \in prompts : q.kind = "roundgate"}}
                = 1..(rounds - 1)

C12_Witness ==
    /\ pc = "gateB"
    /\ rounds = 3
    /\ quitRound = 0
    /\ Len(ai) = 2

\* C13: every step leaves the debate sequence as it was or extends it at
\* the end, and the round numbers never decrease along the sequence.
C13_DebateAppendOnly ==
    /\ [][/\ Len(debate') >= Len(debate)
          /\ SubSeq(debate', 1, Len(debate)) = debate]_vars
    /\ [](\A i \in 1..(Len(debate) - 1) : debate[i].round <= debate[i + 1].round)

C13_Witness ==
    /\ Len(debate) >= 3
    /\ debate[1].round < debate[Len(debate)].round

\* C14: when a critique or respond round has ended and its round gate is
\* consulted, the debate sequence holds an entry of that round for every
\* active provider.
C14_RoundEntryPerProvider ==
    pc = "roundgate" =>
      \A n \in AiNames :
        \E i \in DOMAIN debate : debate[i].round = rnd /\ debate[i].provider = n

\* C15: outside the wait for a batch no provider call is outstanding, so
\* _save_state and the gates are reached only with every call resolved; in
\* a fan-out batch an outstanding call stays outstanding until it resolves
\* itself, whatever happens to its siblings; and a fan-out batch whose
\* calls all resolve is eventually left.
FanOut == {"clarify", "research", "critique", "respond", "extra"}

C15_BatchCompletes ==
    /\ [](pc # "await" => \A n \in KnownNames : task[n] \notin Unresolved)
    /\ [][(savedIn' # savedIn \/ persisted' # persisted) =>
            \A n \in KnownNames : task'[n] \notin Unresolved]_vars
    /\ [][batch.kind \in FanOut =>
            \A n \in KnownNames :
              task[n] \in Unresolved =>
                /\ task'[n] \in Unresolved \cup Final
                /\ task'[n] # task[n] =>
                     \A m \in KnownNames \ {n} : task'[m] = task[m]]_vars
    /\ (pc = "await" /\ batch.kind \in FanOut)
          ~> (pc # "await" \/ batch.kind \notin FanOut)

C15_Witness ==
    /\ pc = "await"
    /\ batch.kind = "research"
    /\ \E n, m \in AiNames : task[n] = "failed" /\ task[m] \in Unresolved

\* C16: in a fan-out batch no provider's call has finished while the call
\* of another provider of the batch has not been issued yet.
C16_IssuedWithoutWaiting ==
    (pc = "await" /\ batch.kind \in FanOut) =>
      \A p, q \in AiNames : ~(task[p] \in Final /\ task[q] = "ready")

\* C17: a gate call returns abort exactly when input() raised EOFError or
\* KeyboardInterrupt or the line is one q or Q between blanks; Gate.ask
\* returns skip exactly when the line is one s or S between blanks, and
\* Gate.ask_round returns proceed for it; every other line, the empty one
\* included, yields proceed.
IsToken(line, lo, up) ==
    \E i \in DOMAIN line :
      /\ line[i] \in {lo, up}
      /\ \A j \in DOMAIN line \ {i} : line[j] = " "

C17_GateDecision ==
    gateKind # "" =>
      gateOut =
        IF gateIn.ev \in {"eof", "int"} \/ IsToken(gateIn.line, "q", "Q")
        THEN "q"
        ELSE IF gateKind = "ask" /\ IsToken(gateIn.line, "s", "S")
        THEN "s"
        ELSE "c"

C17_Witness ==
    /\ gateKind = "ask_round"
    /\ gateIn = [ev |-> "line", line |-> <<" ", "Q", " ">>]
    /\ gateOut = "q"

\* C18: after a phase gate has returned skip, run() is about to start the
\* next phase and has not aborted; the step of a phase gate that returns
\* skip or continue goes to the same next phase and changes nothing else;
\* and the step that follows a skip is the start of that phase, as after a
\* continue.
PhaseGatePcs == {"gate0", "gateA", "gateB", "gateC"}

ContinueTarget(at) ==
    CASE at = "gate0" -> "phaseA"
      [] at = "gateA" -> "phaseB"
      [] at = "gateB" -> IF skipExtra THEN "phaseD" ELSE "phaseC"
      [] at = "gateC" -> "phaseD"

C19_NoProviderNoTrace ==
    pc = "config_error" =>
      /\ started = <<>>
      /\ prompts = {}
      /\ persisted = <<>>
      /\ ~outDir

\* C20: once create_provider has rejected a name of the configuration, no
\* phase starts.
C20_UnknownNameIsFatal == rejected => started = <<>>

\* C21: every consensus prompt goes to the first active provider in
\* configuration order, whatever that order is.
C21_FirstConfiguredLeads ==
    \A pr \in prompts : pr.kind = "consensus" => pr.to = ai[1].name

\* the CLI invocations a pending call of provider n has made so far
CliCalls(n) ==
    CASE task[n] = "cli_q" -> 1
      [] task[n] = "cli" -> IF HasKey(n) THEN 1 ELSE 2
      [] OTHER -> 0

\* C25: within one query_with_fallback call the CLI fallback is invoked at
\* most once, an empty credential included.
C25_FallbackAtMostOnce == \A n \in AiNames : CliCalls(n) <= 1

\* the providers whose research call, primary or fallback, returned a text
Returned == {n \in AiNames : task[n] \in Final \ {"failed"}}

\* C28: the success count reported after the research phase is the number
\* of providers whose call returned a text, whatever the text begins with.
C28_OkCountsReturnedTexts == pc = "gateA" => okCount = Cardinality(Returned)

\* C22 as stated: an early termination at the last round gate, the one
\* after round R-1, runs the consensus with a round number above R.
C22_EarlyConsensusExceedsRounds ==
    (quitRound # 0 /\ quitRound = rounds - 1) => consRound > rounds

\* C22: the consensus step never runs with a round number above R; an early
\* termination at the gate of round r runs it with r + 1, and r < R because
\* the last round has no round gate.
C22_EarlyConsensusWithinRounds ==
    /\ consRound <= rounds
    /\ \A pr \in prompts : pr.kind = "consensus" => pr.rnd <= rounds
    /\ quitRound # 0 => quitRound < rounds /\ consRound = quitRound + 1

C22_Witness ==
    /\ rounds = MaxRoundsCfg
    /\ quitRound = rounds - 1
    /\ consRound = rounds
    /\ \E pr \in prompts : pr.kind = "consensus" /\ pr.rnd = rounds

\* the batches that belong to a debate round
RoundBatches == {"critique", "respond", "synth", "verify", "amend"}

\* C23: whatever debate_rounds the configuration or the command line asks
\* for, the number of rounds is at most 5, and so is the round number of
\* every critique, respond and consensus step and of every debate entry.
C23_RoundsCapped ==
    /\ rounds <= RoundCap
    /\ consRound <= RoundCap
    /\ batch.kind \in RoundBatches => batch.rnd <= RoundCap
    /\ \A pr \in prompts : pr.rnd <= RoundCap
    /\ \A i \in DOMAIN debate : debate[i].round <= RoundCap

C23_Witness ==
    /\ cfg.debate_rounds = MaxRoundsLong
    /\ rounds = RoundCap
    /\ pc = "gateB"
    /\ consRound = RoundCap
    /\ \E i \in DOMAIN debate : debate[i].round = RoundCap - 1

\* the providers configured with a reference to an unset environment variable
UnsetNames ==
    {cfg.providers[i].name :
       i \in {j \in DOMAIN cfg.providers : cfg.providers[j].api_key = "${UNSET}"}}

\* C24: a provider whose credential is ${NAME} with NAME unset is constructed
\* without error and holds the empty credential; none of its calls takes the
\* API path, and the first thing each of its queries does is start the CLI
\* fallback.
C24_UnsetKeyFallsBack ==
    /\ [](\A n \in UnsetNames :
            /\ pc \notin {"new", "config_error"}
            /\ ~rejected
            /\ n \in AiNames
            /\ ~HasKey(n)
            /\ task[n] \notin {"done_api", "poll"})
    /\ [][\A n \in UnsetNames :
            (task[n] = "ready" /\ task'[n] # "ready") => task'[n] = "cli_q"]_vars

C24_Witness ==
    /\ "gemini" \in UnsetNames
    /\ resolve_key("${UNSET}") = ""
    /\ batch.kind = "research"
    /\ task["gemini"] = "cli_q"

\* the most polls one deep research makes
MaxPolls == MaxWait \div PollInterval

\* provider p's deep research is between two polls
Polling(p) == task[p] = "poll"

\* C26: deep-research polling always terminates. While it runs, the
\* accumulated wait is a multiple of 15 seconds below 1800 and at most 120
\* polls were made; each poll ends the call with the output (completed),
\* hands over to the fallback (failed), or adds exactly 15 seconds; the
\* timeout is raised exactly when the wait reaches 1800 seconds.
C26_PollingTerminates ==
    /\ [](Polling("gemini") =>
            /\ elapsed % PollInterval = 0
            /\ elapsed < MaxWait
            /\ (elapsed \div PollInterval) + 1 <= MaxPolls)
    /\ [][Polling("gemini") =>
            \/ task'["gemini"] = "done_api" /\ timedOut' = timedOut
            \/ task'["gemini"] = "cli" /\ timedOut' = timedOut
            \/ /\ task'["gemini"] = "cli"
               /\ timedOut' = timedOut \cup {"gemini"}
               /\ elapsed + PollInterval = MaxWait
            \/ /\ Polling("gemini")'
               /\ elapsed' = IF task' = task THEN elapsed + PollInterval
                                             ELSE elapsed
               /\ elapsed' < MaxWait
               /\ timedOut' = timedOut]_vars
    /\ Polling("gemini") ~> ~Polling("gemini")

C26_Witness ==
    /\ "gemini" \in timedOut
    /\ task["gemini"] = "cli"
    /\ batch.kind = "research"

\* C27: when a provider's deep-research polling ran into the maximum wait
\* during the research phase, that provider's research entry is a failure
\* marker.
C27_TimeoutIsFailure ==
    pc = "gateA" => \A n \in timedOut : research[n] = FailMarker(n)

\* entry rec of the debate is one that provider p's respond prompt of round
\* r has to quote
Quoted(rec, p, r) == rec.round = r - 1 /\ rec.provider # p

\* C29: the prompt of provider p in respond round N quotes exactly the
\* debate entries of round N-1 written by the others, each once and in the
\* order of the debate, and shows the placeholder exactly when there is none.
C29_RespondQuotesPreviousRound ==
    \A pr \in prompts : pr.kind = "respond" =>
      LET at == {i \in 1..pr.at : Quoted(debate[i], pr.to, pr.rnd)}
      IN  /\ \A j \in DOMAIN pr.refs : Quoted(pr.refs[j], pr.to, pr.rnd)
          /\ \A i \in at : \E j \in DOMAIN pr.refs : pr.refs[j] = debate[i]
          /\ Len(pr.refs) = Cardinality(at)
          /\ \A j, k \in DOMAIN pr.refs :
               j < k => \E i, l \in at :
                          i < l /\ debate[i] = pr.refs[j] /\ debate[l] = pr.refs[k]
          /\ pr.none <=> (at = {})

\* one prompt leaves out an older entry of another provider and an own entry
\* of the previous round, and another prompt has nothing to quote
C29_Witness ==
    \E pr, pq \in prompts :
      /\ pr.kind = "respond"
      /\ pr.refs # <<>>
      /\ \E i \in 1..pr.at :
           debate[i].round < pr.rnd - 1 /\ debate[i].provider # pr.to
      /\ \E i \in 1..pr.at :
           debate[i].round = pr.rnd - 1 /\ debate[i].provider = pr.to
      /\ pq.kind = "respond"
      /\ pq.none
      /\ pq.at > 0

SrcOf(st) == IF st = "done_api" THEN "api" ELSE "cli"

\* C31: within a research batch a completion of provider p's call writes
\* the entry under p and nothing else: the entries already there keep
\* their values and none is removed.  Whatever the order of the
\* completions, the record at the end of the batch maps each active
\* provider to the outcome of its own call.
C31_OwnEntryOnly ==
    /\ [][(batch.kind = "research" /\ research' # research) =>
            \E p \in AiNames :
              /\ task[p] \in Unresolved
              /\ task'[p] \in Final
              /\ \A n \in AiNames \ {p} : task'[n] = task[n]
              /\ DOMAIN research' = DOMAIN research \cup {p}
              /\ \A n \in DOMAIN research \ {p} : research'[n] = research[n]]_vars
    /\ [](pc = "gateA" =>
            research = [n \in AiNames |->
                          IF task[n] = "failed" THEN FailMarker(n)
                          ELSE Text("research", n, 0, SrcOf(task[n]),
                                    research[n].br)])

\* the second provider's call has completed and written its entry while the
\* first provider's call is still pending
C31_Witness ==
    /\ batch.kind = "research"
    /\ pc = "await"
    /\ Len(ai) = 2
    /\ task[ai[1].name] \in Unresolved
    /\ task[ai[2].name] \in Final
    /\ DOMAIN research = {ai[2].name}

\* the debate phase has reached its gate
PostDebate == pc = "gateB" \/ "Debate" \in gated

\* C32: from the debate phase gate on, through the extra phase and the
\* report phase to the end of the run, no step changes the research record,
\* the debate sequence or the consensus, and state.json holds these three
\* values.
C32_RecordFrozenAfterDebate ==
    /\ [][PostDebate =>
            /\ research' = research
            /\ debate' = debate
            /\ consensus' = consensus]_vars
    /\ [](PostDebate =>
            /\ persisted # <<>>
            /\ \A i \in DOMAIN persisted :
                 /\ persisted[i].research = research
                 /\ persisted[i].debate = debate
                 /\ persisted[i].consensus = consensus)

\* a run through an extra topic and the report, ended
C32_Witness ==
    /\ pc = "done"
    /\ "Extra" \in gated
    /\ extra.topics >= 1
    /\ savedIn = "Report"
    /\ debate # <<>>
    /\ consensus # NoText

====
